---- MODULE Spec2Model ----
(***************************************************************************)
(* Personal finance tracker: the Express API (routes.ts), its Firestore    *)
(* record store adapter (server/firestore.ts) and the aggregation code.    *)
(*                                                                         *)
(* A request is a process: it arrives, runs the synchronous prefix of      *)
(* authenticateUser, and then suspends at every await (verifyIdToken, a    *)
(* store call).  Each await returning is one step; the code between two    *)
(* awaits runs in that step.                                               *)
(***************************************************************************)
EXTENDS Integers, Sequences, FiniteSets, TLC

\* ------------------------------------------------------------ bounds
MaxReqs == 3          \* requests received in one behaviour
MaxDocs == 2          \* documents ever added to one collection
TicksPerDay == 2      \* instants of one calendar day that are told apart
TicksPerMonth == 3    \* instants of one calendar month that are told apart
MaxCalls == 3         \* auth operations called in one behaviour
MaxDuration == 2      \* the longest duration of a Toast, in clock ticks
MaxRenders == 2       \* renders of a Toast with changed props
MaxLiveReqs == 2      \* requests received in one behaviour of the fair server

\* ------------------------------------------------------------ values
Users == {"A", "B"}
\* Two requests are served at a time: every await of one request can be
\* overtaken by the steps of one other request.
Slots == {1, 2}
DocIds == 1..MaxDocs
Collections == {"transactions", "budgets", "categories"}

NaN == 0 - 1          \* the time value of an Invalid Date

\* A wire string holding a date, and what JavaScript makes of it.
WireDate(d) == [t |-> "ymd", v |-> d]          \* "YYYY-MM-DD" of day d
WireText == [t |-> "text", v |-> 0]            \* a string that is no date
DateOf(ms) == [t |-> "Date", v |-> ms]
TimestampOf(ms) == [t |-> "Timestamp", v |-> ms]
ServerNow == TimestampOf(0)                    \* FieldValue.serverTimestamp()

\* new Date(x): a date-only ISO string is midnight UTC of that day.
NewDate(w) ==
  CASE w.t = "ymd" -> DateOf(w.v * TicksPerDay)
    [] w.t = "ymdhm" -> DateOf(w.v)
    [] w.t = "Date" -> w
    [] OTHER -> DateOf(NaN)

EmptyObj == [k \in {} |-> 0]

\* { ...a, ...b }
Spread(a, b) ==
  [k \in (DOMAIN a) \cup (DOMAIN b) |-> IF k \in DOMAIN b THEN b[k] ELSE a[k]]

IsDateField(k) == k \in {"date", "createdAt"}

\* What the store keeps of a value handed to add() or update(): a Date
\* becomes a Timestamp.
ToStored(data) ==
  [k \in DOMAIN data |->
     IF IsDateField(k) /\ data[k].t = "Date" THEN TimestampOf(data[k].v)
     ELSE data[k]]

\* add() and update() refuse a Date whose time value is NaN.
Storable(data) ==
  \A k \in DOMAIN data : IsDateField(k) /\ data[k].t = "Date" => data[k].v # NaN

convertTimestamps(data) ==
  [k \in DOMAIN data |->
     IF IsDateField(k) /\ data[k].t = "Timestamp" THEN DateOf(data[k].v)
     ELSE data[k]]

\* convertTimestamps({ id: doc.id, ...doc.data() })
DocToModel(id, data) == convertTimestamps(Spread([id |-> id], data))

\* ------------------------------------------------------------ identity provider
Tokens == {"tokA", "tokB", "expired"}

\* The uid the identity provider has issued a token for.
UidOf(token) == IF token = "tokA" THEN "A" ELSE "B"

\* auth.verifyIdToken(token): resolves with the decoded token, rejects an
\* invalid one, and rejects too when the provider cannot be reached.
VerifyOutcomes(token) ==
  (IF token \in {"tokA", "tokB"} THEN {"ok"} ELSE {"invalid"}) \cup {"unavailable"}

\* The Authorization header, split at its blanks; <<>> when it is absent.
Headers ==
  {<<>>, <<"Basic", "tokA">>} \cup {<<"Bearer", t>> : t \in Tokens}

\* authHeader && authHeader.startsWith('Bearer ')
HasBearer(h) == Len(h) >= 2 /\ h[1] = "Bearer"

\* authHeader.split(' ')[1]
TokenOf(h) == h[2]

\* ------------------------------------------------------------ requests
Msg(text) == <<[message |-> text]>>

Idle ==
  [pc |-> "idle", m |-> "", p |-> "", id |-> 0, body |-> EmptyObj,
   query |-> EmptyObj, header |-> <<>>, user |-> <<>>, status |-> 0,
   resp |-> <<>>, sawOwner |-> <<>>, gateRuns |-> 0, verifyCalls |-> 0,
   outcome |-> "none", handlerRuns |-> 0, reads |-> 0, writes |-> 0,
   nresp |-> 0, found |-> <<>>, failed |-> FALSE]

In(m, p, id, body, query) ==
  [m |-> m, p |-> p, id |-> id, body |-> body, query |-> query]

TxPostBodies ==
  { [amount |-> 100, category |-> "salary", description |-> "Pay",
     date |-> WireDate(1), type |-> "income"],
    [amount |-> 40, category |-> "food", description |-> "Lunch",
     date |-> WireDate(2), type |-> "expense", userId |-> "B", id |-> 9],
    [amount |-> 0 - 5, category |-> "", description |-> "ab",
     date |-> WireDate(1), type |-> "transfer"],
    [amount |-> 40, category |-> "food", description |-> "Lunch",
     date |-> WireText, type |-> "expense"] }

TxPutBodies ==
  { [amount |-> 55, date |-> WireDate(3)], [userId |-> "B", id |-> 9] }

BudgetPostBodies ==
  { [category |-> "food", amount |-> 50, period |-> "monthly", userId |-> "B"] }

BudgetPutBodies == { [amount |-> 60], [userId |-> "A"] }

CategoryPostBodies == { [name |-> "food", type |-> "expense", userId |-> "B"] }

CategoryPutBodies == { [name |-> "misc"] }

Queries ==
  { [startDate |-> WireDate(1), endDate |-> WireDate(2)],
    [startDate |-> WireDate(2), endDate |-> WireDate(3)],
    [startDate |-> WireDate(1)],
    [startDate |-> WireText, endDate |-> WireDate(2)] }

\* Query strings of GET /analytics/category-totals: complete, with a type
\* that is neither income nor expense, without type, without endDate.
CategoryTotalsQueries ==
  { [type |-> "expense", startDate |-> WireDate(1), endDate |-> WireDate(2)],
    [type |-> "other", startDate |-> WireDate(1), endDate |-> WireDate(2)],
    [startDate |-> WireDate(1), endDate |-> WireDate(2)],
    [type |-> "income", startDate |-> WireDate(1)] }

\* The :type segments clients send to /categories/type/:type.
PathTypes == {"expense", "other"}

TypePath(type) == "/categories/type/" \o type

IsTypePath(p) == \E type \in PathTypes : p = TypePath(type)

\* req.params.type
TypeParam(p) == CHOOSE type \in PathTypes : p = TypePath(type)

PostBodies(c) ==
  CASE c = "transactions" -> TxPostBodies
    [] c = "budgets" -> BudgetPostBodies
    [] c = "categories" -> CategoryPostBodies

PutBodies(c) ==
  CASE c = "transactions" -> TxPutBodies
    [] c = "budgets" -> BudgetPutBodies
    [] c = "categories" -> CategoryPutBodies

ListPath(c) == IF c = "transactions" THEN "/transactions"
               ELSE IF c = "budgets" THEN "/budgets" ELSE "/categories"
ItemPath(c) == IF c = "transactions" THEN "/transactions/:id"
               ELSE IF c = "budgets" THEN "/budgets/:id" ELSE "/categories/:id"

\* The collection a route works on.
CollOf(p) ==
  CASE p \in {"/transactions", "/transactions/:id", "/analytics/transactions",
              "/analytics/category-totals"}
         -> "transactions"
    [] p \in {"/budgets", "/budgets/:id"} -> "budgets"
    [] OTHER -> "categories"

\* The routes registered on apiRouter behind authenticateUser, with the
\* parameters, bodies and queries a client sends.
Inputs ==
  UNION { {In("GET", ListPath(c), 0, EmptyObj, EmptyObj)}
            \cup {In("POST", ListPath(c), 0, b, EmptyObj) : b \in PostBodies(c)}
            \cup {In("PUT", ItemPath(c), i, b, EmptyObj) :
                    i \in DocIds, b \in PutBodies(c)}
            \cup {In("DELETE", ItemPath(c), i, EmptyObj, EmptyObj) : i \in DocIds}
          : c \in Collections }
  \cup {In("GET", ItemPath(c), i, EmptyObj, EmptyObj) :
          c \in {"transactions", "budgets"}, i \in DocIds}
  \cup {In("GET", "/analytics/transactions", 0, EmptyObj, q) : q \in Queries}
  \cup {In("GET", "/analytics/category-totals", 0, EmptyObj, q) :
          q \in CategoryTotalsQueries}
  \cup {In("GET", TypePath(type), 0, EmptyObj, EmptyObj) : type \in PathTypes}

\* ------------------------------------------------------------ store adapter
DateLE(a, b) == a.v # NaN /\ b.v # NaN /\ a.v <= b.v

RECURSIVE WhereAny(_, _, _)
WhereAny(docs, userId, n) ==
  IF n = 0 THEN <<>>
  ELSE IF n \in DOMAIN docs
       THEN Append(WhereAny(docs, userId, n - 1), DocToModel(n, docs[n]))
       ELSE WhereAny(docs, userId, n - 1)

\* snapshot.docs of collection.where('userId', '==', userId).get(), mapped
\* through convertTimestamps, in document id order and looking at ids <= n.
RECURSIVE WhereUser(_, _, _)
WhereUser(docs, userId, n) ==
  IF n = 0 THEN <<>>
  ELSE IF n \in DOMAIN docs /\ docs[n].userId = userId
       THEN Append(WhereUser(docs, userId, n - 1), DocToModel(n, docs[n]))
       ELSE WhereUser(docs, userId, n - 1)

\* The comparator with its operands swapped, a.date.getTime() -
\* b.date.getTime(): oldest first.
RECURSIVE SortByDateAsc(_)
SortByDateAsc(xs) ==
  IF xs = <<>> THEN <<>>
  ELSE LET rest == SortByDateAsc(SubSeq(xs, 1, Len(xs) - 1))
           x == xs[Len(xs)]
           k == Cardinality({i \in 1..Len(rest) : rest[i].date.v <= x.date.v})
       IN SubSeq(rest, 1, k) \o <<x>> \o SubSeq(rest, k + 1, Len(rest))

\* xs.sort((a, b) => b.date.getTime() - a.date.getTime()): most recent
\* first, equal dates keeping their order.
RECURSIVE SortByDateDesc(_)
SortByDateDesc(xs) ==
  IF xs = <<>> THEN <<>>
  ELSE LET rest == SortByDateDesc(SubSeq(xs, 1, Len(xs) - 1))
           x == xs[Len(xs)]
           k == Cardinality({i \in 1..Len(rest) : rest[i].date.v >= x.date.v})
       IN SubSeq(rest, 1, k) \o <<x>> \o SubSeq(rest, k + 1, Len(rest))

getTransactions(docs, userId) ==
  SortByDateDesc(WhereUser(docs, userId, MaxDocs))

getBudgets(docs, userId) == WhereUser(docs, userId, MaxDocs)

getCategories(docs, userId) == WhereUser(docs, userId, MaxDocs)

\* <<>> for null
getDoc(docs, id) ==
  IF id \in DOMAIN docs THEN <<DocToModel(id, docs[id])>> ELSE <<>>

InPeriodHalfOpen(tx, startDate, endDate) ==
  DateLE(startDate, tx.date) /\ DateLE(tx.date, endDate) /\ tx.date # endDate

\* transactionDate >= startDate && transactionDate <= endDate
InPeriod(tx, startDate, endDate) ==
  DateLE(startDate, tx.date) /\ DateLE(tx.date, endDate)

\* allTransactions.filter(...)
RECURSIVE FilterPeriod(_, _, _)
FilterPeriod(xs, startDate, endDate) ==
  IF xs = <<>> THEN <<>>
  ELSE LET rest == FilterPeriod(SubSeq(xs, 1, Len(xs) - 1), startDate, endDate)
           x == xs[Len(xs)]
       IN IF InPeriod(x, startDate, endDate) THEN Append(rest, x) ELSE rest

getTransactionsByPeriod(docs, userId, startDate, endDate) ==
  SortByDateDesc(FilterPeriod(WhereUser(docs, userId, MaxDocs), startDate, endDate))

\* The client library's convertDoc: { id: doc.id, ...data }, the Timestamps
\* of data turned into Dates.
convertDoc(id, data) == Spread([id |-> id], convertTimestamps(data))

\* where('date', '>=', Timestamp.fromDate(startDate)) and
\* where('date', '<=', Timestamp.fromDate(endDate)) on a document's data.
InRangeQuery(data, startDate, endDate) ==
  startDate.v <= data.date.v /\ data.date.v <= endDate.v

\* The documents with ids <= n that the client's period query matches, the
\* highest id first (orderBy('date', 'desc') orders equal dates by
\* descending document name).
RECURSIVE QueryPeriod(_, _, _, _, _)
QueryPeriod(docs, userId, startDate, endDate, n) ==
  IF n = 0 THEN <<>>
  ELSE IF /\ n \in DOMAIN docs
          /\ docs[n].userId = userId
          /\ InRangeQuery(docs[n], startDate, endDate)
       THEN <<convertDoc(n, docs[n])>>
              \o QueryPeriod(docs, userId, startDate, endDate, n - 1)
       ELSE QueryPeriod(docs, userId, startDate, endDate, n - 1)

\* The client library's getTransactionsByPeriod: one store query.
getTransactionsByPeriodClient(docs, userId, startDate, endDate) ==
  SortByDateDesc(QueryPeriod(docs, userId, startDate, endDate, MaxDocs))

\* JavaScript values of the categoryTotals object: numbers, strings (the
\* pieces they were concatenated from), inherited functions, undefined.
Num(n) == [t |-> "number", v |-> n]
Str(parts) == [t |-> "string", v |-> parts]
Undefined == [t |-> "undefined"]
InheritedFunction == [t |-> "function"]

\* Names every object literal inherits a function under from
\* Object.prototype.
ObjectPrototype == {"constructor"}

\* categoryTotals[key] of an object literal whose own properties are the
\* entries of obj, in insertion order.
GetProp(obj, key) ==
  IF \E i \in 1..Len(obj) : obj[i].category = key
  THEN obj[CHOOSE i \in 1..Len(obj) : obj[i].category = key].total
  ELSE IF key \in ObjectPrototype THEN InheritedFunction ELSE Undefined

\* categoryTotals[key] = value
SetProp(obj, key, value) ==
  IF \E i \in 1..Len(obj) : obj[i].category = key
  THEN [i \in 1..Len(obj) |->
          IF obj[i].category = key THEN [obj[i] EXCEPT !.total = value]
          ELSE obj[i]]
  ELSE Append(obj, [category |-> key, total |-> value])

\* !x
Falsy(x) == x.t = "undefined" \/ (x.t = "number" /\ x.v = 0)

\* x + amount: addition of numbers, concatenation otherwise.
JsAdd(x, amount) ==
  CASE x.t = "number" -> Num(x.v + amount)
    [] x.t = "string" -> Str(Append(x.v, amount))
    [] x.t = "function" -> Str(<<"function Object() { [native code] }", amount>>)
    [] OTHER -> Num(NaN)

\* transactions.filter(t => t.type === type)
RECURSIVE FilterType(_, _)
FilterType(xs, type) ==
  IF xs = <<>> THEN <<>>
  ELSE IF xs[1].type = type
       THEN <<xs[1]>> \o FilterType(Tail(xs), type)
       ELSE FilterType(Tail(xs), type)

\* typeTransactions.forEach: the entry is set to 0 when it reads falsy,
\* then the amount is added to it.
RECURSIVE AddCategoryTotals(_, _)
AddCategoryTotals(categoryTotals, typeTransactions) ==
  IF typeTransactions = <<>> THEN categoryTotals
  ELSE LET t == typeTransactions[1]
           zeroed == IF Falsy(GetProp(categoryTotals, t.category))
                     THEN SetProp(categoryTotals, t.category, Num(0))
                     ELSE categoryTotals
           added == SetProp(zeroed, t.category,
                            JsAdd(GetProp(zeroed, t.category), t.amount))
       IN AddCategoryTotals(added, Tail(typeTransactions))

\* Object.entries(categoryTotals).map(([category, total]) => ...) of the
\* totals accumulated over the period's transactions of the type.
getTotalsByCategory(docs, userId, type, startDate, endDate) ==
  AddCategoryTotals(<<>>,
    FilterType(getTransactionsByPeriod(docs, userId, startDate, endDate), type))

\* where('userId', '==', userId).where('type', '==', type)
getCategoriesByType(docs, userId, type) ==
  FilterType(WhereUser(docs, userId, MaxDocs), type)

\* collection.add({ ...record, createdAt: FieldValue.serverTimestamp() })
AddDoc(docs, id, record) ==
  [i \in (DOMAIN docs) \cup {id} |->
     IF i = id THEN ToStored(Spread(record, [createdAt |-> ServerNow]))
     ELSE docs[i]]

\* collection.doc(id).update(data)
UpdateDoc(docs, id, data) ==
  [docs EXCEPT ![id] = Spread(@, ToStored(data))]

\* collection.doc(id).delete()
DeleteDoc(docs, id) == [i \in (DOMAIN docs) \ {id} |-> docs[i]]

\* ------------------------------------------------------------ state
\* The Dashboard before it is rendered: the useState(0) totals.
Unmounted ==
  [mounted |-> FALSE, uid |-> "", startDate |-> 0, endDate |-> 0, data |-> <<>>,
   totalIncome |-> 0, totalExpenses |-> 0, totalBalance |-> 0]

\* No client component is looked at.
NoUi == [component |-> "none"]

\* No aggregation function has been called.
NoCall == [fn |-> "none", args |-> EmptyObj, result |-> <<>>]

\* No handler reads or writes two collections, so the requests of one
\* behaviour are taken to address one collection, coll, which Init draws.
\* A step that touches nothing shared (verifyIdToken settling, a response
\* leaving) commutes with every step of another request and is taken first.
VARIABLES
  coll,       \* the collection the requests of this behaviour address
  store,      \* store[c]: the documents of collection c, by document id
  nextId,     \* nextId[c]: the id the next add() to c assigns
  reqs,       \* reqs[s]: the request served in slot s
  nreq,       \* requests received so far
  dash,       \* the Dashboard page of one signed-in user
  agg,       \* the aggregation call made on the client or by a route
  ui         \* the client component looked at: its props, state and timers

vars == <<coll, store, nextId, reqs, nreq, dash, agg, ui>>

Init ==
  /\ coll \in Collections
  /\ store = [c \in Collections |-> EmptyObj]
  /\ nextId = [c \in Collections |-> 1]
  /\ reqs = [s \in Slots |-> Idle]
  /\ nreq = 0
  /\ dash = Unmounted
  /\ agg = NoCall
  /\ ui = NoUi

\* ------------------------------------------------------------ gate and handlers
\* res.status(status).json(body)
Respond(r, status, body) ==
  [r EXCEPT !.pc = "done", !.status = status, !.resp = body, !.nresp = @ + 1]

Owned == {"transactions", "budgets"}

Noun(c) == CASE c = "transactions" -> "Transaction"
             [] c = "budgets" -> "Budget"
             [] OTHER -> "Category"

PostDataBodyLast(r) ==
  LET owned == Spread([userId |-> r.user[1]], r.body)
  IN IF CollOf(r.p) = "transactions"
     THEN Spread(owned, [date |-> NewDate(r.body.date)])
     ELSE owned

\* The record a POST handler hands to create*: the body with userId set
\* last, and for a transaction the date run through new Date().
PostData(r) ==
  LET owned == Spread(r.body, [userId |-> r.user[1]])
  IN IF CollOf(r.p) = "transactions"
     THEN Spread(owned, [date |-> IF "date" \in DOMAIN r.body
                                  THEN NewDate(r.body.date)
                                  ELSE DateOf(NaN)])
     ELSE owned

\* What a PUT handler hands to update*: req.body, a transaction's date
\* replaced by new Date(req.body.date) when the body has one.
PutData(r) ==
  IF CollOf(r.p) = "transactions" /\ "date" \in DOMAIN r.body
  THEN Spread(r.body, [date |-> NewDate(r.body.date)])
  ELSE r.body

\* A store write being called: the client library throws on a value it
\* cannot encode, which the handler's catch turns into 500.
IssueWrite(r, call, data) ==
  IF Storable(data)
  THEN [r EXCEPT !.pc = call, !.writes = @ + 1]
  ELSE Respond(r, 500, Msg("Failed"))

IssueRead(r, call) == [r EXCEPT !.pc = call, !.reads = @ + 1]

ValidTypeAny(type) == TRUE

\* !(type !== 'income' && type !== 'expense')
ValidType(type) == type = "income" \/ type = "expense"

\* The route handler, from its first line to its first await.
Handler(r0) ==
  LET r == [r0 EXCEPT !.handlerRuns = @ + 1]
      c == CollOf(r.p)
  IN CASE r.p = "/analytics/transactions" ->
            IF "startDate" \notin DOMAIN r.query \/ "endDate" \notin DOMAIN r.query
            THEN Respond(r, 400, Msg("Start date and end date are required"))
            ELSE IssueRead(r, "query")
       [] r.p = "/analytics/category-totals" ->
            IF \/ "type" \notin DOMAIN r.query
               \/ "startDate" \notin DOMAIN r.query
               \/ "endDate" \notin DOMAIN r.query
            THEN Respond(r, 400, Msg("Type, start date, and end date are required"))
            ELSE IF ~ValidType(r.query.type)
            THEN Respond(r, 400, Msg("Type must be either 'income' or 'expense'"))
            ELSE IssueRead(r, "query")
       [] IsTypePath(r.p) ->
            IF ~ValidType(TypeParam(r.p))
            THEN Respond(r, 400, Msg("Type must be either 'income' or 'expense'"))
            ELSE IssueRead(r, "query")
       [] r.p = ListPath(c) /\ r.m = "GET" -> IssueRead(r, "query")
       [] r.p = ListPath(c) /\ r.m = "POST" -> IssueWrite(r, "add", PostData(r))
       [] r.p = ItemPath(c) /\ c \in Owned -> IssueRead(r, "get")
       [] r.p = ItemPath(c) /\ c \notin Owned /\ r.m = "PUT" ->
            IssueWrite(r, "update", r.body)
       [] r.p = ItemPath(c) /\ c \notin Owned /\ r.m = "DELETE" ->
            IssueWrite(r, "delete", EmptyObj)

authenticateUserAnyScheme(r) ==
  IF Len(r.header) < 2
  THEN Respond(r, 401, Msg("Authentication required"))
  ELSE [r EXCEPT !.pc = "verify", !.verifyCalls = @ + 1]

\* authenticateUser up to its await: the header check.
authenticateUser(r) ==
  IF ~HasBearer(r.header)
  THEN Respond(r, 401, Msg("Authentication required"))
  ELSE [r EXCEPT !.pc = "verify", !.verifyCalls = @ + 1]

VerifiedNextAlways(r, outcome) ==
  Handler([r EXCEPT !.outcome = outcome, !.user = <<UidOf(TokenOf(r.header))>>])

\* The catch around verifyIdToken left empty: a rejected token is neither
\* answered nor passed on.
VerifiedCatchSilent(r, outcome) ==
  IF outcome = "ok"
  THEN Handler([r EXCEPT !.outcome = outcome,
                         !.user = <<UidOf(TokenOf(r.header))>>])
  ELSE [r EXCEPT !.outcome = outcome, !.pc = "hung"]

\* authenticateUser after verifyIdToken settled: req.user and next(), or
\* the catch around the call.
Verified(r, outcome) ==
  IF outcome = "ok"
  THEN Handler([r EXCEPT !.outcome = outcome,
                         !.user = <<UidOf(TokenOf(r.header))>>])
  ELSE Respond([r EXCEPT !.outcome = outcome], 401,
               <<[message |-> "Invalid token", error |-> outcome]>>)

AfterGetUnchecked(r0, found) ==
  LET r == [r0 EXCEPT !.sawOwner =
                          IF found = <<>> THEN <<>> ELSE <<found[1].userId>>]
  IN IF found = <<>>
     THEN Respond(r, 404, Msg("not found"))
     ELSE IF r.m = "GET" THEN Respond(r, 200, found)
     ELSE [r EXCEPT !.pc = IF r.m = "PUT" THEN "update" ELSE "delete",
                    !.writes = @ + 1]

AfterGetOwnerFirst(r0, found) ==
  LET r == [r0 EXCEPT !.sawOwner =
                          IF found = <<>> THEN <<>> ELSE <<found[1].userId>>]
  IN IF found = <<>> \/ found[1].userId # r.user[1]
     THEN Respond(r, 403, Msg("Not authorized"))
     ELSE IF r.m = "GET" THEN Respond(r, 200, found)
     ELSE [r EXCEPT !.pc = IF r.m = "PUT" THEN "update" ELSE "delete",
                    !.writes = @ + 1]

\* GET, PUT and DELETE of one transaction or budget, after get* resolved
\* with found (<<>> for null).
AfterGet(r0, found) ==
  LET r == [r0 EXCEPT !.sawOwner =
                          IF found = <<>> THEN <<>> ELSE <<found[1].userId>>]
      c == CollOf(r.p)
  IN IF found = <<>>
     THEN Respond(r, 404, Msg(Noun(c) \o " not found"))
     ELSE IF found[1].userId # r.user[1]
     THEN Respond(r, 403, Msg("Not authorized"))
     ELSE CASE r.m = "GET" -> Respond(r, 200, found)
            [] r.m = "PUT" -> IssueWrite(r, "update", PutData(r))
            [] r.m = "DELETE" -> IssueWrite(r, "delete", EmptyObj)

\* What a list handler answers with.
Listing(r, docs) ==
  CASE r.p = "/transactions" -> getTransactions(docs, r.user[1])
    [] r.p = "/budgets" -> getBudgets(docs, r.user[1])
    [] r.p = "/categories" -> getCategories(docs, r.user[1])
    [] r.p = "/analytics/transactions" ->
         getTransactionsByPeriod(docs, r.user[1], NewDate(r.query.startDate),
                                 NewDate(r.query.endDate))
    [] r.p = "/analytics/category-totals" ->
         getTotalsByCategory(docs, r.user[1], r.query.type,
                             NewDate(r.query.startDate), NewDate(r.query.endDate))
    [] IsTypePath(r.p) -> getCategoriesByType(docs, r.user[1], TypeParam(r.p))

\* POST requests waiting for add() on collection c.
PendingAdds(c) ==
  Cardinality({s \in Slots : reqs[s].pc = "add" /\ CollOf(reqs[s].p) = c})

\* ------------------------------------------------------------ actions
\* A request reaches the router: authenticateUser runs to its await.
Arrive(s, in, h) ==
  /\ nreq < MaxReqs
  /\ \A t \in Slots : reqs[t].pc \notin {"done", "verify"}
  /\ CollOf(in.p) = coll
  /\ reqs[s].pc = "idle"
  /\ \A t \in Slots : t < s => reqs[t].pc # "idle"
  /\ in.m = "POST" =>
       nextId[CollOf(in.p)] + PendingAdds(CollOf(in.p)) <= MaxDocs
  /\ reqs' = [reqs EXCEPT ![s] =
       authenticateUser([Idle EXCEPT !.m = in.m, !.p = in.p, !.id = in.id,
                                     !.body = in.body, !.query = in.query,
                                     !.header = h, !.gateRuns = 1])]
  /\ nreq' = nreq + 1
  /\ UNCHANGED <<agg, dash, coll, store, nextId, ui>>

\* verifyIdToken settles.
VerifyReturns(s, outcome) ==
  /\ reqs[s].pc = "verify"
  /\ \A t \in Slots : reqs[t].pc # "done"
  /\ outcome \in VerifyOutcomes(TokenOf(reqs[s].header))
  /\ reqs' = [reqs EXCEPT ![s] = Verified(@, outcome)]
  /\ UNCHANGED <<agg, dash, coll, store, nextId, nreq, ui>>

\* getTransaction / getBudget resolves.
GetReturns(s) ==
  /\ reqs[s].pc = "get"
  /\ \A t \in Slots : reqs[t].pc \notin {"done", "verify"}
  /\ reqs' = [reqs EXCEPT ![s] =
       AfterGet(@, getDoc(store[CollOf(@.p)], @.id))]
  /\ UNCHANGED <<agg, dash, coll, store, nextId, nreq, ui>>

\* A list query resolves.
QueryReturns(s) ==
  /\ reqs[s].pc = "query"
  /\ \A t \in Slots : reqs[t].pc \notin {"done", "verify"}
  /\ reqs' = [reqs EXCEPT ![s] =
       Respond(@, 200, Listing(@, store[CollOf(@.p)]))]
  /\ UNCHANGED <<agg, dash, coll, store, nextId, nreq, ui>>

\* create* resolves with the new document's id.
AddReturns(s) ==
  LET r == reqs[s]
      c == CollOf(r.p)
      id == nextId[c]
  IN /\ r.pc = "add"
     /\ \A t \in Slots : reqs[t].pc \notin {"done", "verify"}
     /\ store' = [store EXCEPT ![c] = AddDoc(@, id, PostData(r))]
     /\ nextId' = [nextId EXCEPT ![c] = id + 1]
     /\ reqs' = [reqs EXCEPT ![s] =
          Respond(r, 201, <<Spread([id |-> id], PostData(r))>>)]
     /\ UNCHANGED <<agg, dash, coll, nreq, ui>>

\* update* settles: the store rejects an update of a missing document.
UpdateReturns(s) ==
  LET r == reqs[s]
      c == CollOf(r.p)
  IN /\ r.pc = "update"
     /\ \A t \in Slots : reqs[t].pc \notin {"done", "verify"}
     /\ IF r.id \in DOMAIN store[c]
        THEN /\ store' = [store EXCEPT ![c] = UpdateDoc(@, r.id, PutData(r))]
             /\ reqs' = [reqs EXCEPT ![s] =
                  Respond(r, 200, Msg(Noun(c) \o " updated successfully"))]
        ELSE /\ store' = store
             /\ reqs' = [reqs EXCEPT ![s] = Respond(r, 500, Msg("Failed"))]
     /\ UNCHANGED <<agg, dash, coll, nextId, nreq, ui>>

\* delete* resolves.
DeleteReturns(s) ==
  LET r == reqs[s]
      c == CollOf(r.p)
  IN /\ r.pc = "delete"
     /\ \A t \in Slots : reqs[t].pc \notin {"done", "verify"}
     /\ store' = [store EXCEPT ![c] = DeleteDoc(@, r.id)]
     /\ reqs' = [reqs EXCEPT ![s] =
          Respond(r, 200, Msg(Noun(c) \o " deleted successfully"))]
     /\ UNCHANGED <<agg, dash, coll, nextId, nreq, ui>>

\* The store cannot be reached: the pending call rejects and the handler's
\* catch answers.
StoreFails(s) ==
  /\ reqs[s].pc \in {"get", "query", "add", "update", "delete"}
  /\ \A t \in Slots : reqs[t].pc \notin {"done", "verify"}
  /\ reqs' = [reqs EXCEPT ![s] =
       Respond([@ EXCEPT !.failed = TRUE], 500, Msg("Failed"))]
  /\ UNCHANGED <<agg, dash, coll, store, nextId, nreq, ui>>

\* The response has left; the slot serves the next request.
Retire(s) ==
  /\ reqs[s].pc = "done"
  /\ reqs' = [reqs EXCEPT ![s] = Idle]
  /\ UNCHANGED <<agg, dash, coll, store, nextId, nreq, ui>>

Next ==
  \E s \in Slots :
    \/ \E in \in Inputs, h \in Headers : Arrive(s, in, h)
    \/ \E outcome \in {"ok", "invalid", "unavailable"} : VerifyReturns(s, outcome)
    \/ GetReturns(s)
    \/ QueryReturns(s)
    \/ AddReturns(s)
    \/ UpdateReturns(s)
    \/ DeleteReturns(s)
    \/ StoreFails(s)
    \/ Retire(s)

Spec == Init /\ [][Next]_vars

\* The pending external call of the request in slot s returns or throws.
Settles(s) ==
  \/ \E outcome \in {"ok", "invalid", "unavailable"} : VerifyReturns(s, outcome)
  \/ GetReturns(s)
  \/ QueryReturns(s)
  \/ AddReturns(s)
  \/ UpdateReturns(s)
  \/ DeleteReturns(s)
  \/ StoreFails(s)

\* The server taking up to MaxLiveReqs requests.
NextLive ==
  \E s \in Slots :
    \/ \E in \in Inputs, h \in Headers : nreq < MaxLiveReqs /\ Arrive(s, in, h)
    \/ Settles(s)
    \/ Retire(s)

\* That server with every external call settling and every response sent
\* leaving: a call awaited is a promise of the identity provider or of the
\* store, and a response written is handed to the socket.
SpecLive ==
  /\ Init /\ [][NextLive]_vars
  /\ \A s \in Slots : WF_vars(Settles(s)) /\ WF_vars(Retire(s))

\* ------------------------------------------------------------ users
\* The routes registered without authenticateUser: POST /users,
\* POST /auth/verify-token and GET /users/profile.  The user storage and
\* insertUserSchema are modelled from their description: a table of user
\* records, found by username or by the identity mapped to them.
UserBodies ==
  { [username |-> "alice", password |-> "pw"],
    [username |-> "bob", password |-> "pw", firebaseUid |-> "B"],
    [username |-> "carol"] }

TokenBodies == {[token |-> t] : t \in Tokens} \cup {EmptyObj}

UserInputs ==
  {In("POST", "/users", 0, b, EmptyObj) : b \in UserBodies}
  \cup {In("POST", "/auth/verify-token", 0, b, EmptyObj) : b \in TokenBodies}
  \cup {In("GET", "/users/profile", 0, EmptyObj, EmptyObj)}

\* The user tables a server starts from: empty, or alice mapped to A.
InitialUsers ==
  { EmptyObj,
    [i \in {1} |-> [id |-> 1, username |-> "alice", password |-> "pw",
                     firebaseUid |-> "A"]] }

\* insertUserSchema.parse(req.body) does not throw.
ValidUser(body) == {"username", "password"} \subseteq DOMAIN body

\* storage.getUserByUsername / getUserByFirebaseUid: <<>> for undefined.
FindUser(users, key, value) ==
  LET ids == {i \in DOMAIN users : key \in DOMAIN users[i] /\ users[i][key] = value}
  IN IF ids = {} THEN <<>>
     ELSE <<users[CHOOSE i \in ids : \A j \in ids : i <= j]>>

\* storage.createUser(userData): the record with its id.
createUser(id, userData) == Spread(userData, [id |-> id])

OmitNothing(user) == user

\* const { password, ...userWithoutPassword } = user
OmitPassword(user) == [k \in (DOMAIN user) \ {"password"} |-> user[k]]

\* A public handler from its first line to its first await.
UsersHandler(r0) ==
  LET r == [r0 EXCEPT !.handlerRuns = @ + 1]
      verify == [r EXCEPT !.pc = "verify", !.verifyCalls = @ + 1]
  IN CASE r.p = "/users" ->
            IF ~ValidUser(r.body)
            THEN Respond(r, 400, Msg("Validation error"))
            ELSE IssueRead(r, "lookup")
       [] r.p = "/auth/verify-token" ->
            IF "token" \notin DOMAIN r.body
            THEN Respond(r, 400, Msg("Token is required"))
            ELSE verify
       [] r.p = "/users/profile" ->
            IF ~HasBearer(r.header)
            THEN Respond(r, 401, Msg("Authentication required"))
            ELSE verify

AfterLookupNoConflict(r, existingUser) ==
  [r EXCEPT !.pc = "create", !.writes = @ + 1]

\* POST /users after getUserByUsername resolved.
AfterLookup(r, existingUser) ==
  IF existingUser # <<>>
  THEN Respond(r, 409, Msg("Username already exists"))
  ELSE [r EXCEPT !.pc = "create", !.writes = @ + 1]

\* Requests that may still call createUser.
PendingUsers ==
  Cardinality({s \in Slots : reqs[s].pc \in {"lookup", "create"}})

UsersArrive(s, in, h) ==
  /\ nreq < MaxReqs
  /\ \A t \in Slots : reqs[t].pc \notin {"done", "verify"}
  /\ reqs[s].pc = "idle"
  /\ \A t \in Slots : t < s => reqs[t].pc # "idle"
  /\ in.p = "/users" => nextId["users"] + PendingUsers <= MaxDocs
  /\ in.p # "/users/profile" => h = <<>>
  /\ reqs' = [reqs EXCEPT ![s] =
       UsersHandler([Idle EXCEPT !.m = in.m, !.p = in.p, !.body = in.body,
                                 !.header = h])]
  /\ nreq' = nreq + 1
  /\ UNCHANGED <<agg, dash, coll, store, nextId, ui>>

\* verifyIdToken settles in /auth/verify-token or /users/profile.
UsersVerifyReturns(s, outcome) ==
  LET r == [reqs[s] EXCEPT !.outcome = outcome]
      token == IF r.p = "/users/profile" THEN TokenOf(r.header) ELSE r.body.token
  IN /\ r.pc = "verify"
     /\ \A t \in Slots : reqs[t].pc # "done"
     /\ outcome \in VerifyOutcomes(token)
     /\ reqs' = [reqs EXCEPT ![s] =
          IF outcome # "ok"
          THEN Respond(r, 401, <<[message |-> "Invalid token", error |-> outcome]>>)
          ELSE IF r.p = "/auth/verify-token"
          THEN Respond(r, 200, <<[uid |-> UidOf(token)]>>)
          ELSE IssueRead([r EXCEPT !.user = <<UidOf(token)>>], "profile")]
     /\ UNCHANGED <<agg, dash, coll, store, nextId, nreq, ui>>

\* storage.getUserByUsername resolves.
LookupReturns(s) ==
  LET existingUser == FindUser(store["users"], "username", reqs[s].body.username)
  IN /\ reqs[s].pc = "lookup"
     /\ \A t \in Slots : reqs[t].pc \notin {"done", "verify"}
     /\ reqs' = [reqs EXCEPT ![s] =
          AfterLookup([@ EXCEPT !.found = existingUser], existingUser)]
     /\ UNCHANGED <<agg, dash, coll, store, nextId, nreq, ui>>

\* storage.createUser resolves.
CreateReturns(s) ==
  LET r == reqs[s]
      user == createUser(nextId["users"], r.body)
  IN /\ r.pc = "create"
     /\ \A t \in Slots : reqs[t].pc \notin {"done", "verify"}
     /\ store' = [store EXCEPT !["users"] =
          [i \in (DOMAIN @) \cup {user.id} |-> IF i = user.id THEN user ELSE @[i]]]
     /\ nextId' = [nextId EXCEPT !["users"] = @ + 1]
     /\ reqs' = [reqs EXCEPT ![s] = Respond(r, 201, <<OmitPassword(user)>>)]
     /\ UNCHANGED <<agg, dash, coll, nreq, ui>>

\* storage.getUserByFirebaseUid resolves.
ProfileReturns(s) ==
  LET user == FindUser(store["users"], "firebaseUid", reqs[s].user[1])
      r == [reqs[s] EXCEPT !.found = user]
  IN /\ reqs[s].pc = "profile"
     /\ \A t \in Slots : reqs[t].pc \notin {"done", "verify"}
     /\ reqs' = [reqs EXCEPT ![s] =
          IF user = <<>>
          THEN Respond(r, 404, Msg("User not found"))
          ELSE Respond(r, 200, <<OmitPassword(user[1])>>)]
     /\ UNCHANGED <<agg, dash, coll, store, nextId, nreq, ui>>

\* A storage call rejects: POST /users has one catch, which answers 500;
\* in GET /users/profile the call is inside the try around verifyIdToken.
StorageFails(s) ==
  LET r == [reqs[s] EXCEPT !.failed = TRUE]
  IN /\ r.pc \in {"lookup", "create", "profile"}
     /\ \A t \in Slots : reqs[t].pc \notin {"done", "verify"}
     /\ reqs' = [reqs EXCEPT ![s] =
          IF r.pc = "profile"
          THEN Respond(r, 401, <<[message |-> "Invalid token",
                                  error |-> "storage"]>>)
          ELSE Respond(r, 500, <<[message |-> "Failed to create user",
                                  error |-> "storage"]>>)]
     /\ UNCHANGED <<agg, dash, coll, store, nextId, nreq, ui>>

InitUsers ==
  /\ coll = "users"
  /\ \E users \in InitialUsers :
       /\ store = [c \in {"users"} |-> users]
       /\ nextId = [c \in {"users"} |-> Cardinality(DOMAIN users) + 1]
  /\ reqs = [s \in Slots |-> Idle]
  /\ nreq = 0
  /\ dash = Unmounted
  /\ agg = NoCall
  /\ ui = NoUi

NextUsers ==
  \E s \in Slots :
    \/ \E in \in UserInputs, h \in Headers : UsersArrive(s, in, h)
    \/ \E outcome \in {"ok", "invalid", "unavailable"} :
         UsersVerifyReturns(s, outcome)
    \/ LookupReturns(s)
    \/ CreateReturns(s)
    \/ ProfileReturns(s)
    \/ StorageFails(s)
    \/ Retire(s)

SpecUsers == InitUsers /\ [][NextUsers]_vars

\* ------------------------------------------------------------ totals
\* transactions.forEach: income += amount for type 'income', else
\* expenses += amount.
RECURSIVE IncomeOf(_)
IncomeOf(xs) ==
  IF xs = <<>> THEN 0
  ELSE IncomeOf(SubSeq(xs, 1, Len(xs) - 1))
       + (IF xs[Len(xs)].type = "income" THEN xs[Len(xs)].amount ELSE 0)

RECURSIVE ExpensesOfAll(_)
ExpensesOfAll(xs) ==
  IF xs = <<>> THEN 0
  ELSE ExpensesOfAll(SubSeq(xs, 1, Len(xs) - 1)) + xs[Len(xs)].amount

RECURSIVE ExpensesOf(_)
ExpensesOf(xs) ==
  IF xs = <<>> THEN 0
  ELSE ExpensesOf(SubSeq(xs, 1, Len(xs) - 1))
       + (IF xs[Len(xs)].type = "income" THEN 0 ELSE xs[Len(xs)].amount)

\* The Dashboard's effect on [transactions]: the three set* calls, made
\* only for a non-empty array.
TotalsEffect(d, transactions) ==
  IF Len(transactions) > 0
  THEN [d EXCEPT !.data = transactions,
                 !.totalIncome = IncomeOf(transactions),
                 !.totalExpenses = ExpensesOf(transactions),
                 !.totalBalance = IncomeOf(transactions) - ExpensesOf(transactions)]
  ELSE [d EXCEPT !.data = transactions]

Amounts == {40, 100}
Days == 1..3

\* The instants a stored transaction is dated at: the midnights of two days
\* and the last instant of the second.
TxInstants == {TicksPerDay, 2 * TicksPerDay, 3 * TicksPerDay - 1}

\* Documents as createTransaction stores a Transaction.
TxDocs ==
  { [userId |-> u, amount |-> a, category |-> "food", description |-> "Lunch",
     date |-> TimestampOf(i), type |-> ty, createdAt |-> ServerNow] :
    u \in Users, a \in Amounts, i \in TxInstants, ty \in {"income", "expense"} }

TxStores == UNION { [1..n -> TxDocs] : n \in 0..MaxDocs }

InitTotals ==
  /\ coll = "transactions"
  /\ \E docs \in TxStores :
       /\ store = [c \in Collections |-> IF c = coll THEN docs ELSE EmptyObj]
       /\ nextId = [c \in Collections |-> IF c = coll THEN Len(docs) + 1 ELSE 1]
  /\ reqs = [s \in Slots |-> Idle]
  /\ nreq = 0
  /\ dash = Unmounted
  /\ agg = NoCall
  /\ ui = NoUi

\* The totals of owner u over [startDate, endDate]: the list
\* getTransactionsByPeriod answers with, put through the totals effect of a
\* freshly rendered page.
PeriodTotals(u, startDate, endDate) ==
  /\ ~dash.mounted
  /\ dash' = TotalsEffect(
       [Unmounted EXCEPT !.mounted = TRUE, !.uid = u,
                         !.startDate = startDate.v, !.endDate = endDate.v],
       getTransactionsByPeriod(store["transactions"], u, startDate, endDate))
  /\ UNCHANGED <<agg, coll, store, nextId, reqs, nreq, ui>>

NextTotals ==
  \E u \in Users, s \in Days, e \in Days :
    PeriodTotals(u, DateOf(s * TicksPerDay), DateOf(e * TicksPerDay))

SpecTotals == InitTotals /\ [][NextTotals]_vars

\* The Dashboard's query ['/api/transactions'] resolves, at first or on a
\* refetch, with the list GET /transactions answers user u with, and the
\* effect on [transactions] runs.
TransactionsFetched(u) ==
  /\ dash.mounted => u = dash.uid
  /\ dash' = TotalsEffect([dash EXCEPT !.mounted = TRUE, !.uid = u],
                          getTransactions(store["transactions"], u))
  /\ UNCHANGED <<agg, coll, store, nextId, reqs, nreq, ui>>

\* A DELETE /transactions/:id of the owner is applied to the store.
TransactionDeleted(id) ==
  /\ id \in DOMAIN store["transactions"]
  /\ store' = [store EXCEPT !["transactions"] = DeleteDoc(@, id)]
  /\ UNCHANGED <<agg, coll, nextId, reqs, nreq, dash, ui>>

NextDashboard ==
  \/ \E u \in Users : TransactionsFetched(u)
  \/ \E id \in DocIds : TransactionDeleted(id)

SpecDashboard == InitTotals /\ [][NextDashboard]_vars

\* ------------------------------------------------------------ period lists
PeriodQueries ==
  { [startDate |-> WireDate(s), endDate |-> WireDate(e)] : s \in Days, e \in Days }

\* GET /analytics/transactions past its parameter check: the list
\* getTransactionsByPeriod resolves with for the dates of the query string.
TransactionsByPeriod(u, q) ==
  LET startDate == NewDate(q.startDate)
      endDate == NewDate(q.endDate)
  IN /\ agg.fn = "none"
     /\ agg' = [fn |-> "getTransactionsByPeriod",
                 args |-> [userId |-> u, startDate |-> startDate,
                           endDate |-> endDate, query |-> q],
                 result |-> getTransactionsByPeriod(store["transactions"], u,
                                                    startDate, endDate)]
     /\ UNCHANGED <<coll, store, nextId, reqs, nreq, dash, ui>>

\* The client library's getTransactionsByPeriod called with two Dates.
ClientTransactionsByPeriod(u, startDate, endDate) ==
  /\ agg.fn = "none"
  /\ agg' = [fn |-> "client.getTransactionsByPeriod",
              args |-> [userId |-> u, startDate |-> startDate,
                        endDate |-> endDate],
              result |-> getTransactionsByPeriodClient(store["transactions"], u,
                                                       startDate, endDate)]
  /\ UNCHANGED <<coll, store, nextId, reqs, nreq, dash, ui>>

\* GET /transactions: the list getTransactions resolves with.
Transactions(u) ==
  /\ agg.fn = "none"
  /\ agg' = [fn |-> "getTransactions", args |-> [userId |-> u],
              result |-> getTransactions(store["transactions"], u)]
  /\ UNCHANGED <<coll, store, nextId, reqs, nreq, dash, ui>>

NextPeriod ==
  \E u \in Users :
    \/ Transactions(u)
    \/ \E q \in PeriodQueries : TransactionsByPeriod(u, q)
    \/ \E i \in TxInstants, j \in TxInstants :
         ClientTransactionsByPeriod(u, DateOf(i), DateOf(j))

SpecPeriod == InitTotals /\ [][NextPeriod]_vars

\* ------------------------------------------------------------ monthly totals
\* For the yearly totals a time value counts the instants told apart in a
\* month, in local time: of the TicksPerMonth instants of a month the first
\* is 00:00:00.000 of its first day, the last but one 23:59:59.000 of its
\* last day, and the last lies within that day's final second.
MonthsPerYear == 12
TicksPerYear == MonthsPerYear * TicksPerMonth

\* date.getFullYear(), date.getMonth()
getFullYear(d) == d.v \div TicksPerYear
getMonth(d) == (d.v % TicksPerYear) \div TicksPerMonth

\* new Date(year, 0, 1)
YearStart(year) == DateOf(year * TicksPerYear)

\* new Date(year, 11, 31, 23, 59, 59)
YearEnd(year) == DateOf((year + 1) * TicksPerYear - 2)

InitialMonthlyTotalsZeroBased ==
  [i \in 1..MonthsPerYear |-> [month |-> i - 1, incomeTotal |-> 0, expenseTotal |-> 0]]

\* Array.from({ length: 12 }, (_, i) => ({ month: i + 1, ... }))
InitialMonthlyTotals ==
  [i \in 1..MonthsPerYear |-> [month |-> i, incomeTotal |-> 0, expenseTotal |-> 0]]

\* transactions.forEach: the transaction's amount added to the income or
\* the expense total of monthlyTotals[transaction.date.getMonth()].
RECURSIVE AddMonthly(_, _)
AddMonthly(monthlyTotals, transactions) ==
  IF transactions = <<>> THEN monthlyTotals
  ELSE LET t == transactions[1]
           month == getMonth(t.date) + 1
           added == IF t.type = "income"
                    THEN [monthlyTotals EXCEPT ![month].incomeTotal = @ + t.amount]
                    ELSE [monthlyTotals EXCEPT ![month].expenseTotal = @ + t.amount]
       IN AddMonthly(added, Tail(transactions))

getMonthlyTotals(docs, userId, year) ==
  AddMonthly(InitialMonthlyTotals,
             getTransactionsByPeriodClient(docs, userId, YearStart(year),
                                           YearEnd(year)))

Years == {2024, 2025}

\* The instants the transactions of the yearly totals are dated at: the
\* first instant of a year, an instant in June, the last second of the year
\* and the instant after it, and the first instant of the next year.
MonthlyInstants ==
  { 2024 * TicksPerYear, 2024 * TicksPerYear + 5 * TicksPerMonth,
    2025 * TicksPerYear - 2, 2025 * TicksPerYear - 1, 2025 * TicksPerYear }

MonthlyDocs ==
  { [userId |-> u, amount |-> a, category |-> "food", description |-> "Lunch",
     date |-> TimestampOf(i), type |-> ty, createdAt |-> ServerNow] :
    u \in Users, a \in Amounts, i \in MonthlyInstants,
    ty \in {"income", "expense"} }

InitMonthly ==
  /\ coll = "transactions"
  /\ \E docs \in UNION { [1..n -> MonthlyDocs] : n \in 0..MaxDocs } :
       /\ store = [c \in Collections |-> IF c = coll THEN docs ELSE EmptyObj]
       /\ nextId = [c \in Collections |-> IF c = coll THEN Len(docs) + 1 ELSE 1]
  /\ reqs = [s \in Slots |-> Idle]
  /\ nreq = 0
  /\ dash = Unmounted
  /\ agg = NoCall
  /\ ui = NoUi

MonthlyTotals(u, year) ==
  /\ agg.fn = "none"
  /\ agg' = [fn |-> "getMonthlyTotals",
              args |-> [userId |-> u, year |-> year],
              result |-> getMonthlyTotals(store["transactions"], u, year)]
  /\ UNCHANGED <<coll, store, nextId, reqs, nreq, dash, ui>>

NextMonthly == \E u \in Users, year \in Years : MonthlyTotals(u, year)

SpecMonthly == InitMonthly /\ [][NextMonthly]_vars

\* ------------------------------------------------------------ category totals
CategoryNames == {"food", "rent", "constructor"}

\* Documents as createTransaction stores them, dated at the midnights of
\* the first two days.
CategoryTxDocs ==
  { [userId |-> u, amount |-> a, category |-> c, description |-> "Lunch",
     date |-> TimestampOf(d * TicksPerDay), type |-> ty, createdAt |-> ServerNow] :
    u \in Users, a \in Amounts, c \in CategoryNames, d \in {1, 2},
    ty \in {"income", "expense"} }

InitCategoryTotals ==
  /\ coll = "transactions"
  /\ \E docs \in UNION { [1..n -> CategoryTxDocs] : n \in 0..MaxDocs } :
       /\ store = [c \in Collections |-> IF c = coll THEN docs ELSE EmptyObj]
       /\ nextId = [c \in Collections |-> IF c = coll THEN Len(docs) + 1 ELSE 1]
  /\ reqs = [s \in Slots |-> Idle]
  /\ nreq = 0
  /\ dash = Unmounted
  /\ agg = NoCall
  /\ ui = NoUi

\* GET /analytics/category-totals past its parameter checks.
CategoryTotals(u, type, q) ==
  LET startDate == NewDate(q.startDate)
      endDate == NewDate(q.endDate)
  IN /\ agg.fn = "none"
     /\ agg' = [fn |-> "getTotalsByCategory",
                 args |-> [userId |-> u, type |-> type, startDate |-> startDate,
                           endDate |-> endDate, query |-> q],
                 result |-> getTotalsByCategory(store["transactions"], u, type,
                                                startDate, endDate)]
     /\ UNCHANGED <<coll, store, nextId, reqs, nreq, dash, ui>>

NextCategoryTotals ==
  \E u \in Users, type \in {"income", "expense"} :
    \E q \in { [startDate |-> WireDate(1), endDate |-> WireDate(e)] : e \in {1, 2} } :
      CategoryTotals(u, type, q)

SpecCategoryTotals == InitCategoryTotals /\ [][NextCategoryTotals]_vars

\* ------------------------------------------------------------ AuthProvider
\* The operations of the context value.
AuthOps == {"login", "register", "logout", "sendPasswordReset"}

\* AuthProvider as first rendered: useState(null), useState(true), the
\* listener subscribed and not called yet; session is the identity
\* provider's signed-in user, kept from an earlier visit or none.
InitAuth ==
  /\ coll = "users"
  /\ store = [c \in Collections |-> EmptyObj]
  /\ nextId = [c \in Collections |-> 1]
  /\ reqs = [s \in Slots |-> Idle]
  /\ nreq = 0
  /\ dash = Unmounted
  /\ agg = NoCall
  /\ \E session \in {<<>>, <<"A">>} :
       ui = [component |-> "AuthProvider", currentUser |-> <<>>,
             loading |-> TRUE, fired |-> FALSE, session |-> session,
             notify |-> FALSE, calls |-> <<>>, toast |-> ""]

\* login, register, logout or sendPasswordReset is called and runs to its
\* await: setLoading(true).
AuthCall(op) ==
  /\ Len(ui.calls) < MaxCalls
  /\ ui' = [ui EXCEPT !.loading = TRUE,
                      !.calls = Append(@, [op |-> op, state |-> "pending"])]
  /\ UNCHANGED <<coll, store, nextId, reqs, nreq, dash, agg>>

\* The awaited call of operation i resolves (ok) or rejects: the toast, the
\* rethrow of every operation but logout, and the finally's
\* setLoading(false).  A sign-in or sign-out changes the session, which the
\* identity provider tells its listeners.
AuthSettles(i, ok) ==
  LET op == ui.calls[i].op
      session == IF ok /\ op \in {"login", "register"} THEN <<"A">>
                 ELSE IF ok /\ op = "logout" THEN <<>>
                 ELSE ui.session
      toast == CASE ok /\ op = "login" -> ui.toast
                 [] ok /\ op = "register" -> "Registration successful"
                 [] ok /\ op = "logout" -> "Logged out"
                 [] ok /\ op = "sendPasswordReset" -> "Password reset email sent"
                 [] ~ok /\ op = "login" -> "Login failed"
                 [] ~ok /\ op = "register" -> "Registration failed"
                 [] ~ok /\ op = "logout" -> "Logout failed"
                 [] ~ok /\ op = "sendPasswordReset" -> "Failed to send reset email"
  IN /\ i \in DOMAIN ui.calls
     /\ ui.calls[i].state = "pending"
     /\ ui' = [ui EXCEPT !.loading = FALSE,
                         !.calls[i].state = IF ok \/ op = "logout"
                                            THEN "resolved" ELSE "rejected",
                         !.session = session,
                         !.notify = @ \/ session # ui.session,
                         !.toast = toast]
     /\ UNCHANGED <<coll, store, nextId, reqs, nreq, dash, agg>>

\* The listener given to onAuthStateChange is called, first with the
\* session found and then after each change: setCurrentUser(user),
\* setLoading(false).
AuthStateChange ==
  /\ ~ui.fired \/ ui.notify
  /\ ui' = [ui EXCEPT !.currentUser = ui.session, !.loading = FALSE,
                      !.fired = TRUE, !.notify = FALSE]
  /\ UNCHANGED <<coll, store, nextId, reqs, nreq, dash, agg>>

NextAuth ==
  \/ \E op \in AuthOps : AuthCall(op)
  \/ \E i \in 1..MaxCalls, ok \in BOOLEAN : AuthSettles(i, ok)
  \/ AuthStateChange

SpecAuth == InitAuth /\ [][NextAuth]_vars

\* ------------------------------------------------------------ Toast
\* A Toast as first rendered with its props: useState(true), and the effect
\* has set the timer to the duration.  timer is <<n>> with n ticks left, or
\* <<>> with no timeout set; closes counts the calls of onClose.
InitToast ==
  /\ coll = "users"
  /\ store = [c \in Collections |-> EmptyObj]
  /\ nextId = [c \in Collections |-> 1]
  /\ reqs = [s \in Slots |-> Idle]
  /\ nreq = 0
  /\ dash = Unmounted
  /\ agg = NoCall
  /\ \E variant \in {"success", "error", "warning", "info"},
        duration \in 1..MaxDuration, hasOnClose \in BOOLEAN :
       ui = [component |-> "Toast", variant |-> variant,
             duration |-> duration, hasOnClose |-> hasOnClose,
             mounted |-> TRUE, isVisible |-> TRUE, timer |-> <<duration>>,
             closes |-> 0, renders |-> 0]

\* Time passes under a set timeout.
Tick ==
  /\ ui.timer # <<>> /\ ui.timer[1] > 0
  /\ ui' = [ui EXCEPT !.timer = <<@[1] - 1>>]
  /\ UNCHANGED <<coll, store, nextId, reqs, nreq, dash, agg>>

\* The timeout's callback: setIsVisible(false); if (onClose) onClose().
TimerFires ==
  /\ ui.timer = <<0>>
  /\ ui' = [ui EXCEPT !.timer = <<>>, !.isVisible = FALSE,
                      !.closes = IF ui.hasOnClose THEN @ + 1 ELSE @]
  /\ UNCHANGED <<coll, store, nextId, reqs, nreq, dash, agg>>

\* The close button, rendered while isVisible, is clicked:
\* setIsVisible(false); if (onClose) onClose().
CloseClick ==
  /\ ui.mounted /\ ui.isVisible
  /\ ui' = [ui EXCEPT !.isVisible = FALSE,
                      !.closes = IF ui.hasOnClose THEN @ + 1 ELSE @]
  /\ UNCHANGED <<coll, store, nextId, reqs, nreq, dash, agg>>

\* The parent renders the Toast again with duration d and with onClose
\* given or not, a new function if fresh: when [duration, onClose] changed
\* the effect's cleanup clears the timeout and the effect sets a new one.
Rerender(d, h, fresh) ==
  LET changed == d # ui.duration \/ h # ui.hasOnClose \/ (h /\ fresh)
  IN /\ ui.mounted /\ ui.renders < MaxRenders
     /\ ui' = [ui EXCEPT !.duration = d, !.hasOnClose = h,
                         !.renders = @ + 1,
                         !.timer = IF changed THEN <<d>> ELSE @]
     /\ UNCHANGED <<coll, store, nextId, reqs, nreq, dash, agg>>

\* The parent stops rendering the Toast: the cleanup clears the timeout.
Unmount ==
  /\ ui.mounted
  /\ ui' = [ui EXCEPT !.mounted = FALSE, !.timer = <<>>]
  /\ UNCHANGED <<coll, store, nextId, reqs, nreq, dash, agg>>

NextToast ==
  \/ Tick
  \/ TimerFires
  \/ CloseClick
  \/ \E d \in 1..MaxDuration, h \in BOOLEAN, fresh \in BOOLEAN : Rerender(d, h, fresh)
  \/ Unmount

SpecToast == InitToast /\ [][NextToast]_vars

\* ------------------------------------------------------------ AuthPage
\* The addresses a form is submitted with.
Emails == {"a@x.io", "b@x.io"}

\* What AuthPage renders: nothing for a signed-in user, else the form of
\* the view.
Rendered(u) ==
  IF u.currentUser # <<>> THEN "none"
  ELSE CASE u.view = "login" -> "LoginForm"
         [] u.view = "register" -> "RegisterForm"
         [] u.view = "forgotPassword" -> "ForgotPasswordForm"
         [] u.view = "resetEmailSent" -> "ResetEmailSent"

\* The rendered form goes away: its state is lost and the submissions it
\* awaits go on without it (live: awaited by the form now rendered).
FormsUnmounted(u) ==
  [u EXCEPT !.sends = {[email |-> x.email, live |-> FALSE] : x \in @},
            !.registers = {[live |-> FALSE] : x \in @},
            !.error = FALSE]

\* AuthPage as first rendered: useState('login'), useState(''); sends and
\* registers are the submissions awaiting sendPasswordReset and register,
\* lastSend the outcome of the latest sendPasswordReset.
InitAuthPage ==
  /\ coll = "users"
  /\ store = [c \in Collections |-> EmptyObj]
  /\ nextId = [c \in Collections |-> 1]
  /\ reqs = [s \in Slots |-> Idle]
  /\ nreq = 0
  /\ dash = Unmounted
  /\ agg = NoCall
  /\ ui = [component |-> "AuthPage", view |-> "login", resetEmail |-> "",
           currentUser |-> <<>>, sends |-> {}, registers |-> {},
           error |-> FALSE, lastSend |-> <<>>]

\* A link of the rendered form is clicked: onShowRegister and
\* onShowForgotPassword of the LoginForm, onShowLogin or onBackToLogin of
\* the other three.  No link is disabled while a submission is awaited.
Show(v) ==
  /\ \/ v \in {"register", "forgotPassword"} /\ Rendered(ui) = "LoginForm"
     \/ v = "login" /\ Rendered(ui) \in {"RegisterForm", "ForgotPasswordForm",
                                          "ResetEmailSent"}
  /\ ui' = [FormsUnmounted(ui) EXCEPT !.view = v]
  /\ UNCHANGED <<coll, store, nextId, reqs, nreq, dash, agg>>

\* ForgotPasswordForm's onSubmit up to its await; the submit button is
\* disabled while the form's isLoading.
SubmitReset(email) ==
  /\ Rendered(ui) = "ForgotPasswordForm"
  /\ \A x \in ui.sends : ~x.live
  /\ ui' = [ui EXCEPT !.sends = @ \cup {[email |-> email, live |-> TRUE]},
                      !.error = FALSE]
  /\ UNCHANGED <<coll, store, nextId, reqs, nreq, dash, agg>>

\* sendPasswordReset settles for submission x: onResetSent(email), which
\* is AuthPage's setResetEmail(email) and setView('resetEmailSent'), or the
\* catch's setError on the form if it is still rendered.
ResetSettles(x, ok) ==
  LET rest == [ui EXCEPT !.sends = @ \ {x},
                         !.lastSend = <<[email |-> x.email, ok |-> ok]>>]
  IN /\ x \in ui.sends
     /\ ui' = IF ok
              THEN [(IF ui.view = "resetEmailSent" THEN rest
                     ELSE FormsUnmounted(rest))
                    EXCEPT !.resetEmail = x.email, !.view = "resetEmailSent"]
              ELSE [rest EXCEPT !.error = @ \/ x.live]
     /\ UNCHANGED <<coll, store, nextId, reqs, nreq, dash, agg>>

\* RegisterForm's onSubmit up to its await.
SubmitRegister ==
  /\ Rendered(ui) = "RegisterForm"
  /\ \A x \in ui.registers : ~x.live
  /\ ui' = [ui EXCEPT !.registers = @ \cup {[live |-> TRUE]}, !.error = FALSE]
  /\ UNCHANGED <<coll, store, nextId, reqs, nreq, dash, agg>>

\* register settles for submission x: onShowLogin(), which is AuthPage's
\* setView('login'), or the catch's setError.
RegisterSettles(x, ok) ==
  LET rest == [ui EXCEPT !.registers = @ \ {x}]
  IN /\ x \in ui.registers
     /\ ui' = IF ok
              THEN [(IF ui.view = "login" THEN rest ELSE FormsUnmounted(rest))
                    EXCEPT !.view = "login"]
              ELSE [rest EXCEPT !.error = @ \/ x.live]
     /\ UNCHANGED <<coll, store, nextId, reqs, nreq, dash, agg>>

\* useAuth().currentUser changes: a sign-in, after which AuthPage returns
\* null, or a sign-out.
CurrentUserChanges(user) ==
  /\ user # ui.currentUser
  /\ ui' = [(IF user # <<>> THEN FormsUnmounted(ui) ELSE ui)
            EXCEPT !.currentUser = user]
  /\ UNCHANGED <<coll, store, nextId, reqs, nreq, dash, agg>>

NextAuthPage ==
  \/ \E v \in {"login", "register", "forgotPassword"} : Show(v)
  \/ \E email \in Emails : SubmitReset(email)
  \/ \E email \in Emails, live \in BOOLEAN, ok \in BOOLEAN :
       ResetSettles([email |-> email, live |-> live], ok)
  \/ SubmitRegister
  \/ \E live \in BOOLEAN, ok \in BOOLEAN : RegisterSettles([live |-> live], ok)
  \/ \E user \in {<<>>, <<"A">>} : CurrentUserChanges(user)

SpecAuthPage == InitAuthPage /\ [][NextAuthPage]_vars

\* ------------------------------------------------------------ properties
ById(r) == r.p = ItemPath(CollOf(r.p))
IsRecord(x) == "userId" \in DOMAIN x

\* C1: a GET-by-id, PUT or DELETE of a transaction or budget by an identity
\* other than the owner the handler read ends with 403, answers with no
\* record, and issues no write to the store.
C1_NonOwnerRejected ==
  \A s \in Slots :
    LET r == reqs[s]
    IN (CollOf(r.p) \in Owned /\ ById(r) /\ r.sawOwner # <<>>
        /\ r.sawOwner[1] # r.user[1])
       => /\ r.pc = "done"
          /\ r.status = 403
          /\ \A i \in 1..Len(r.resp) : ~IsRecord(r.resp[i])
          /\ r.writes = 0

C1_Witness ==
  \E s \in Slots :
    /\ reqs[s].m = "PUT" /\ reqs[s].p = "/transactions/:id"
    /\ reqs[s].sawOwner = <<"B">> /\ reqs[s].user = <<"A">>
    /\ reqs[s].status = 403

\* C2: a PUT or DELETE of a category by an identity other than its owner
\* leaves that category as it was.
C2_CategoryOwnerOnly ==
  [][\A s \in Slots : \A id \in DOMAIN store["categories"] :
       (/\ reqs[s].pc \in {"update", "delete"}
        /\ reqs'[s].pc = "done"
        /\ reqs[s].p = "/categories/:id"
        /\ reqs[s].user[1] # store["categories"][id].userId)
       => /\ id \in DOMAIN store'["categories"]
          /\ store'["categories"][id] = store["categories"][id]]_vars

\* C3: for GET, PUT and DELETE by id on transactions and budgets, 404 is
\* answered exactly when the id has no stored record, whoever asks, and 403
\* only when the record exists and belongs to someone else.
C3_ExistenceBeforeOwnership ==
  \A s \in Slots :
    LET r == reqs[s]
        docs == store[CollOf(r.p)]
    IN (r.pc = "done" /\ CollOf(r.p) \in Owned /\ ById(r) /\ r.handlerRuns = 1)
       => /\ r.status = 404 => r.id \notin DOMAIN docs
          /\ r.status = 403 =>
               r.id \in DOMAIN docs /\ docs[r.id].userId # r.user[1]
          /\ (r.id \notin DOMAIN docs /\ r.writes = 0 /\ r.status # 500)
               => r.status = 404

C3_Witness ==
  \E s \in Slots :
    /\ reqs[s].pc = "done" /\ reqs[s].p = "/budgets/:id" /\ reqs[s].m = "DELETE"
    /\ reqs[s].status = 404 /\ reqs[s].id \notin DOMAIN store["budgets"]
    /\ store["budgets"] # EmptyObj

\* C4: a request with no Authorization header, with one that does not
\* start with "Bearer ", or with a token the provider rejects ends with 401
\* without the handler running or the store being read or written; without
\* a bearer header verifyIdToken is never called.
C4_Unauthenticated401 ==
  \A s \in Slots :
    LET r == reqs[s]
    IN /\ (r.pc # "idle" /\ ~HasBearer(r.header)) =>
            r.pc = "done" /\ r.verifyCalls = 0
       /\ (r.pc = "done" /\ (~HasBearer(r.header) \/ r.outcome = "invalid")) =>
            /\ r.status = 401
            /\ r.handlerRuns = 0 /\ r.reads = 0 /\ r.writes = 0

C4_Witness ==
  \E s \in Slots :
    /\ reqs[s].pc = "done" /\ reqs[s].header = <<"Basic", "tokA">>
    /\ reqs[s].status = 401 /\ reqs[s].verifyCalls = 0

\* C5: a verification that fails because the provider cannot be reached
\* ends with a server-side status, not with the 401 of an invalid token.
C5_UnavailableIsNot401 ==
  \A s \in Slots :
    (reqs[s].pc = "done" /\ reqs[s].outcome = "unavailable")
      => reqs[s].status >= 500

\* C6: a handler runs only after verifyIdToken resolved for its request,
\* once, after one run of the gate, and with req.user.uid the uid of the
\* request's token.
C6_HandlerAfterVerify ==
  \A s \in Slots :
    LET r == reqs[s]
    IN /\ r.pc # "idle" => r.gateRuns = 1 /\ r.handlerRuns <= 1
       /\ (r.handlerRuns > 0 \/ r.reads > 0 \/ r.writes > 0
           \/ r.pc \in {"get", "query", "add", "update", "delete"}) =>
            /\ r.handlerRuns = 1
            /\ r.verifyCalls = 1
            /\ r.outcome = "ok"
            /\ r.user = <<UidOf(TokenOf(r.header))>>
            /\ TokenOf(r.header) \in {"tokA", "tokB"}

C6_Witness ==
  \E s \in Slots :
    /\ reqs[s].pc = "query" /\ reqs[s].p = "/transactions"
    /\ reqs[s].header = <<"Bearer", "tokB">> /\ reqs[s].user = <<"B">>

\* C7: the record a POST stores, and the one it answers with, has the
\* authenticated identity as userId, whatever userId the body carries.
C7_CreateForcesOwner ==
  \A s \in Slots :
    LET r == reqs[s]
        c == CollOf(r.p)
    IN (r.pc = "done" /\ r.m = "POST" /\ r.status = 201)
       => /\ r.resp[1].userId = r.user[1]
          /\ nextId[c] - 1 \in DOMAIN store[c]
          /\ store[c][nextId[c] - 1].userId = r.user[1]

C7_Witness ==
  \E s \in Slots :
    /\ reqs[s].pc = "done" /\ reqs[s].m = "POST" /\ reqs[s].status = 201
    /\ reqs[s].user = <<"A">>
    /\ "userId" \in DOMAIN reqs[s].body /\ reqs[s].body.userId = "B"
    /\ store[coll][nextId[coll] - 1].userId = "A"

IsList(r) ==
  r.m = "GET" /\ (r.p = ListPath(CollOf(r.p)) \/ r.p = "/analytics/transactions")

\* The stored document matches the query of list request r.
Matches(r, doc) ==
  /\ doc.userId = r.user[1]
  /\ r.p = "/analytics/transactions" =>
       /\ DateLE(NewDate(r.query.startDate), doc.date)
       /\ DateLE(doc.date, NewDate(r.query.endDate))

\* C8: a list answers with records of the requester only, and with every
\* stored record of the requester that matches the query.
C8_ListsFilterByOwner ==
  \A s \in Slots :
    LET r == reqs[s]
        docs == store[CollOf(r.p)]
    IN (r.pc = "done" /\ IsList(r) /\ r.status = 200)
       => /\ \A i \in 1..Len(r.resp) :
               /\ r.resp[i].userId = r.user[1]
               /\ \E id \in DOMAIN docs :
                    Matches(r, docs[id]) /\ r.resp[i] = DocToModel(id, docs[id])
          /\ \A id \in DOMAIN docs :
               Matches(r, docs[id]) =>
                 \E i \in 1..Len(r.resp) : r.resp[i] = DocToModel(id, docs[id])

C8_Witness ==
  \E s \in Slots :
    /\ reqs[s].pc = "done" /\ IsList(reqs[s]) /\ reqs[s].status = 200
    /\ reqs[s].user = <<"A">> /\ Len(reqs[s].resp) = 1
    /\ \E id \in DOMAIN store[coll] : store[coll][id].userId = "B"

\* C9: no step changes the owner of a stored transaction or budget, and the
\* id a record is read with is its document id.
C9_IdAndOwnerImmutable ==
  [][\A c \in Owned :
       /\ \A id \in (DOMAIN store[c]) \cap (DOMAIN store'[c]) :
            store'[c][id].userId = store[c][id].userId
       /\ \A id \in DOMAIN store'[c] :
            DocToModel(id, store'[c][id]).id = id]_vars

RECURSIVE SumAmounts(_, _)
SumAmounts(docs, ids) ==
  IF ids = {} THEN 0
  ELSE LET id == CHOOSE i \in ids : TRUE
       IN docs[id].amount + SumAmounts(docs, ids \ {id})

\* The transactions of dash.uid of one type dated within the range.
InRange(docs, type) ==
  {id \in DOMAIN docs :
     /\ docs[id].userId = dash.uid
     /\ docs[id].type = type
     /\ dash.startDate <= docs[id].date.v
     /\ docs[id].date.v <= dash.endDate}

IsPeriodCall ==
  agg.fn \in {"getTransactionsByPeriod", "client.getTransactionsByPeriod"}

\* The transactions of agg.args.userId dated within the closed interval of
\* the call.
InInterval(docs) ==
  {id \in DOMAIN docs :
     /\ docs[id].userId = agg.args.userId
     /\ agg.args.startDate.v <= docs[id].date.v
     /\ docs[id].date.v <= agg.args.endDate.v}

\* C11: getTransactionsByPeriod(u, start, end) answers with exactly the
\* transactions of u dated d with start <= d <= end, each once, both ends
\* included, and with the empty list when start > end.
C11_ClosedInterval ==
  IsPeriodCall =>
    LET docs == store["transactions"]
        want == InInterval(docs)
    IN /\ Len(agg.result) = Cardinality(want)
       /\ \A id \in want :
            \E i \in 1..Len(agg.result) :
              agg.result[i] = DocToModel(id, docs[id])
       /\ agg.args.startDate.v > agg.args.endDate.v => agg.result = <<>>

\* start = end = the date of one of two transactions of the user: that one
\* is the answer.
C11_Witness ==
  /\ agg.fn = "getTransactionsByPeriod"
  /\ agg.args.startDate = agg.args.endDate
  /\ Len(agg.result) = 1
  /\ agg.result[1].date = agg.args.endDate
  /\ Cardinality({id \in DOMAIN store["transactions"] :
                    store["transactions"][id].userId = agg.args.userId}) = 2

\* The transactions of agg.args.userId dated in month m (1..12) of the year
\* of the call.
InMonth(docs, m) ==
  {id \in DOMAIN docs :
     /\ docs[id].userId = agg.args.userId
     /\ getFullYear(docs[id].date) = agg.args.year
     /\ getMonth(docs[id].date) = m - 1}

\* C12: getMonthlyTotals(u, year) answers with 12 entries whose months are
\* 1..12 in that order, and a month with no transaction of u in that year
\* has incomeTotal = 0 and expenseTotal = 0.
C12_TwelveMonths ==
  agg.fn = "getMonthlyTotals" =>
    /\ Len(agg.result) = 12
    /\ \A m \in 1..12 :
         /\ agg.result[m].month = m
         /\ InMonth(store["transactions"], m) = {} =>
              agg.result[m].incomeTotal = 0 /\ agg.result[m].expenseTotal = 0

\* An income of 100 in June and nothing else that year: June reports it,
\* and the store holds another transaction that is not the user's.
C12_Witness ==
  /\ agg.fn = "getMonthlyTotals"
  /\ agg.result[6].incomeTotal = 100
  /\ \A m \in (1..12) \ {6} : InMonth(store["transactions"], m) = {}
  /\ \E id \in DOMAIN store["transactions"] :
       store["transactions"][id].userId # agg.args.userId

\* The transactions of the call's user and type, dated within its interval
\* and of category c.
InCategory(docs, c) ==
  {id \in InInterval(docs) :
     docs[id].type = agg.args.type /\ docs[id].category = c}

\* C13: getTotalsByCategory answers with one entry for each category that
\* a transaction of the user with the type dated in [start, end] has, the
\* entry's total being the sum of the amounts of those transactions, and
\* with no other entry.
C13_CategoryTotals ==
  agg.fn = "getTotalsByCategory" =>
    LET docs == store["transactions"]
        cats == {c \in CategoryNames : InCategory(docs, c) # {}}
    IN /\ Len(agg.result) = Cardinality(cats)
       /\ \A i \in 1..Len(agg.result) : agg.result[i].category \in cats
       /\ \A c \in cats :
            \E i \in 1..Len(agg.result) :
              /\ agg.result[i].category = c
              /\ agg.result[i].total.t = "number"
              /\ agg.result[i].total.v = SumAmounts(docs, InCategory(docs, c))

\* The same for the categories whose name Object.prototype does not hold.
C13_OwnNamesOnly ==
  agg.fn = "getTotalsByCategory" =>
    LET docs == store["transactions"]
        cats == {c \in CategoryNames : InCategory(docs, c) # {}}
    IN /\ Len(agg.result) = Cardinality(cats)
       /\ \A i \in 1..Len(agg.result) : agg.result[i].category \in cats
       /\ \A c \in cats \ ObjectPrototype :
            \E i \in 1..Len(agg.result) :
              agg.result[i] = [category |-> c,
                               total |-> Num(SumAmounts(docs, InCategory(docs, c)))]

MissingAny(query, names) == \E k \in names : k \notin DOMAIN query

\* The request's parameters are ones its handler has to refuse.
BadParameters(r) ==
  \/ /\ r.p = "/analytics/transactions"
     /\ MissingAny(r.query, {"startDate", "endDate"})
  \/ /\ r.p = "/analytics/category-totals"
     /\ \/ MissingAny(r.query, {"type", "startDate", "endDate"})
        \/ r.query.type \notin {"income", "expense"}
  \/ \E type \in PathTypes \ {"income", "expense"} : r.p = TypePath(type)

\* C14: an analytics or type-filtered request whose handler runs on absent
\* startDate/endDate/type or on a type other than income and expense ends
\* with 400 and issues no call to the store.
C14_ValidatedBeforeStore ==
  \A s \in Slots :
    LET r == reqs[s]
    IN (r.handlerRuns > 0 /\ BadParameters(r))
       => /\ r.pc = "done"
          /\ r.status = 400
          /\ r.reads = 0 /\ r.writes = 0

C14_Witness ==
  \E s \in Slots :
    /\ reqs[s].pc = "done" /\ reqs[s].p = "/analytics/category-totals"
    /\ reqs[s].user = <<"A">>
    /\ "type" \in DOMAIN reqs[s].query /\ reqs[s].query.type = "other"
    /\ reqs[s].status = 400 /\ reqs[s].reads = 0
    /\ store["transactions"] # EmptyObj

\* GET /transactions/:id sent by the user of the answered POST r with the
\* id of r's response, as it ends against the store as it is.
FetchCreated(r) ==
  AfterGet([r EXCEPT !.m = "GET", !.p = "/transactions/:id",
                     !.id = r.resp[1].id, !.body = EmptyObj],
           getDoc(store["transactions"], r.resp[1].id))

\* C15: a transaction created by POST /transactions and fetched by its
\* creator with the id of the 201 response comes back with 200, with the
\* submitted amount, category, description, date and type, the creator as
\* userId, and the id and createdAt the store assigned.
C15_RoundTrip ==
  \A s \in Slots :
    LET r == reqs[s]
    IN (r.pc = "done" /\ r.m = "POST" /\ r.p = "/transactions" /\ r.status = 201)
       => /\ FetchCreated(r).status = 200
          /\ LET t == FetchCreated(r).resp[1]
             IN /\ t.amount = r.body.amount
                /\ t.category = r.body.category
                /\ t.description = r.body.description
                /\ t.type = r.body.type
                /\ t.date = NewDate(r.body.date)
                /\ t.userId = r.user[1]
                /\ t.id = nextId["transactions"] - 1
                /\ t.createdAt = DateOf(ServerNow.v)

\* The fields of a transaction or of a request body that break the data
\* model: amount not positive, category empty, description shorter than 3
\* characters, type neither income nor expense.
BrokenFields(t) ==
  {k \in DOMAIN t :
     \/ k = "amount" /\ t[k] <= 0
     \/ k = "category" /\ t[k] = ""
     \/ k = "description" /\ Len(t[k]) < 3
     \/ k = "type" /\ t[k] \notin {"income", "expense"}}

\* C16: every stored transaction satisfies the data model, and a POST or
\* PUT of a transaction whose body breaks it ends with 400 having written
\* nothing (a PUT unless it ended with 404 or 403).
C16_StoredTransactionsValid ==
  /\ \A id \in DOMAIN store["transactions"] :
       BrokenFields(store["transactions"][id]) = {}
  /\ \A s \in Slots :
       LET r == reqs[s]
       IN (/\ r.pc = "done" /\ r.handlerRuns > 0
           /\ CollOf(r.p) = "transactions" /\ r.m \in {"POST", "PUT"}
           /\ r.status \notin {403, 404}
           /\ BrokenFields(r.body) # {})
          => r.status = 400 /\ r.writes = 0

\* C17: a POST /users that ends with its storage calls resolved ends with
\* 400 and no user created when the body fails validation, with 409 and no
\* user created when the lookup found the username, and otherwise with 201,
\* one user created from the body, and a response without the password.
C17_CreateUser ==
  [][\A s \in Slots :
       LET r == reqs'[s]
           created == (DOMAIN store'["users"]) \ (DOMAIN store["users"])
       IN (reqs[s].pc # "done" /\ r.pc = "done" /\ r.p = "/users" /\ ~r.failed)
          => /\ ~ValidUser(r.body) =>
                  r.status = 400 /\ store' = store /\ r.reads = 0
             /\ (ValidUser(r.body) /\ r.found # <<>>) =>
                  r.status = 409 /\ store' = store
             /\ (ValidUser(r.body) /\ r.found = <<>>) =>
                  /\ r.status = 201
                  /\ Cardinality(created) = 1
                  /\ "password" \notin DOMAIN r.resp[1]
                  /\ \A i \in created :
                       /\ store'["users"][i].username = r.body.username
                       /\ store'["users"][i].password = r.body.password
                       /\ r.resp[1].id = i
                       /\ r.resp[1].username = r.body.username]_vars

\* alice exists and a POST /users for alice has ended with 409.
C17_Witness ==
  \E s \in Slots :
    /\ reqs[s].pc = "done" /\ reqs[s].p = "/users" /\ reqs[s].status = 409
    /\ reqs[s].body.username = "alice"
    /\ reqs[s].found # <<>>
    /\ Cardinality(DOMAIN store["users"]) = 1

\* C18: POST /auth/verify-token ends with 400 without a token, 401 for a
\* token the verifier rejects as invalid and 200 with the verified uid for
\* one it accepts; GET /users/profile ends with 401 without a bearer header
\* or with an invalid token, 404 when no profile is mapped to the verified
\* uid and otherwise 200 with the profile less its password.
C18_VerifyAndProfile ==
  \A s \in Slots :
    LET r == reqs[s]
    IN /\ (r.pc = "done" /\ r.p = "/auth/verify-token") =>
            /\ "token" \notin DOMAIN r.body => r.status = 400 /\ r.verifyCalls = 0
            /\ r.outcome = "invalid" => r.status = 401
            /\ r.outcome = "ok" =>
                 r.status = 200 /\ r.resp = <<[uid |-> UidOf(r.body.token)]>>
       /\ (r.pc = "done" /\ r.p = "/users/profile" /\ ~r.failed) =>
            /\ ~HasBearer(r.header) => r.status = 401 /\ r.verifyCalls = 0
            /\ r.outcome = "invalid" => r.status = 401
            /\ (r.outcome = "ok" /\ r.found = <<>>) => r.status = 404
            /\ (r.outcome = "ok" /\ r.found # <<>>) =>
                 /\ r.status = 200
                 /\ r.found[1].firebaseUid = UidOf(TokenOf(r.header))
                 /\ "password" \notin DOMAIN r.resp[1]
                 /\ \A k \in (DOMAIN r.found[1]) \ {"password"} :
                      k \in DOMAIN r.resp[1] /\ r.resp[1][k] = r.found[1][k]

\* B's token is valid and a user exists, but none mapped to B: 404.
C18_Witness ==
  \E s \in Slots :
    /\ reqs[s].pc = "done" /\ reqs[s].p = "/users/profile"
    /\ reqs[s].header = <<"Bearer", "tokB">> /\ reqs[s].outcome = "ok"
    /\ reqs[s].status = 404
    /\ store["users"] # EmptyObj

\* C19: a request whose token was verified and whose store call failed
\* ends with 500.
C19_StoreFailureIs500 ==
  \A s \in Slots :
    (reqs[s].pc = "done" /\ reqs[s].failed /\ reqs[s].outcome = "ok")
      => reqs[s].status = 500

\* The calendar day an instant lies in.
DayOf(d) == d.v \div TicksPerDay

\* C20: GET /analytics/transactions with endDate given as a calendar date
\* answers with every transaction of the user dated on that day, whatever
\* its time of day, unless it lies before startDate.
C20_CalendarDateEnd ==
  agg.fn = "getTransactionsByPeriod" =>
    LET docs == store["transactions"]
    IN \A id \in DOMAIN docs :
         (/\ docs[id].userId = agg.args.userId
          /\ agg.args.startDate.v <= docs[id].date.v
          /\ DayOf(docs[id].date) = agg.args.query.endDate.v)
         => \E i \in 1..Len(agg.result) :
              agg.result[i] = DocToModel(id, docs[id])

\* C21: in the answer of getMonthlyTotals(u, year) the bucket of month m
\* holds, as incomeTotal, the sum of the amounts of u's income transactions
\* dated in month m of the year, and as expenseTotal the sum of the others
\* dated in it.
C21_MonthlyConservation ==
  agg.fn = "getMonthlyTotals" =>
    LET docs == store["transactions"]
    IN \A m \in 1..12 :
         /\ agg.result[m].incomeTotal =
              SumAmounts(docs, {id \in InMonth(docs, m) : docs[id].type = "income"})
         /\ agg.result[m].expenseTotal =
              SumAmounts(docs, {id \in InMonth(docs, m) : docs[id].type # "income"})

\* The request carries a date string that new Date() cannot parse.
UnparseableDate(r) ==
  \/ /\ r.p = "/analytics/transactions"
     /\ \E k \in {"startDate", "endDate"} \cap DOMAIN r.query :
          NewDate(r.query[k]).v = NaN
  \/ /\ r.p = "/transactions" /\ r.m = "POST"
     /\ "date" \in DOMAIN r.body /\ NewDate(r.body.date).v = NaN

\* C22: an analytics request or a POST /transactions whose handler runs on
\* a date that cannot be parsed ends with 400.
C22_MalformedDate400 ==
  \A s \in Slots :
    (reqs[s].pc = "done" /\ reqs[s].handlerRuns > 0 /\ UnparseableDate(reqs[s]))
      => reqs[s].status = 400

\* The transactions the call of agg selects, before sorting: those of the
\* user, and for the period call those dated within the interval.
Selected(docs) ==
  IF agg.fn = "getTransactions"
  THEN {id \in DOMAIN docs : docs[id].userId = agg.args.userId}
  ELSE InInterval(docs)

\* C23: the lists of getTransactions and of the server's
\* getTransactionsByPeriod are ordered by date descending, each adjacent
\* pair having the earlier element's date >= the later element's, and hold
\* every selected transaction exactly once.
C23_DateDescending ==
  agg.fn \in {"getTransactions", "getTransactionsByPeriod"} =>
    LET docs == store["transactions"]
        xs == agg.result
    IN /\ \A i \in 1..(Len(xs) - 1) : xs[i].date.v >= xs[i + 1].date.v
       /\ Len(xs) = Cardinality(Selected(docs))
       /\ \A id \in Selected(docs) :
            Cardinality({i \in 1..Len(xs) : xs[i] = DocToModel(id, docs[id])}) = 1

\* Two transactions of the user stored oldest first come back most recent
\* first, from either function.
C23_Witness ==
  /\ agg.fn \in {"getTransactions", "getTransactionsByPeriod"}
  /\ Len(agg.result) = 2
  /\ store["transactions"][1].date.v < store["transactions"][2].date.v
  /\ agg.result[1].id = 2 /\ agg.result[2].id = 1

\* A PUT /transactions/:id past authenticateUser.
IsTxPut(r) == r.m = "PUT" /\ r.p = ItemPath("transactions") /\ r.handlerRuns > 0

\* C24: once the update of one of two owner's PUT /transactions/:id on the
\* same record is applied and answered with 200, the record holds every
\* field that update wrote, and the other request, still in flight, finds
\* the record its user's own: it passes the ownership check and is not
\* rejected because of the first.
C24_LastWriteWins ==
  \A s \in Slots, t \in Slots :
    (/\ s # t
     /\ IsTxPut(reqs[s]) /\ reqs[s].pc = "done" /\ reqs[s].status = 200
     /\ IsTxPut(reqs[t]) /\ reqs[t].pc \in {"get", "update"}
     /\ reqs[t].id = reqs[s].id /\ reqs[t].user = reqs[s].user)
    => LET docs == store["transactions"]
           data == ToStored(PutData(reqs[s]))
       IN /\ reqs[s].id \in DOMAIN docs
          /\ \A f \in DOMAIN data : docs[reqs[s].id][f] = data[f]
          /\ docs[reqs[s].id].userId = reqs[t].user[1]

\* C25: the user table never holds two users with the same username,
\* whatever the interleaving of POST /users requests.
C25_UniqueUsernames ==
  \A i \in DOMAIN store["users"], j \in DOMAIN store["users"] :
    i # j => store["users"][i].username # store["users"][j].username

\* C26: every request behind authenticateUser ends with a response, and has
\* sent exactly one when it ends and none before: no path sends two, none
\* ends without one.
C26_ExactlyOneResponse ==
  /\ [](\A s \in Slots :
         reqs[s].nresp = IF reqs[s].pc = "done" THEN 1 ELSE 0)
  /\ \A s \in Slots : (reqs[s].pc # "idle") ~> (reqs[s].pc = "done")

\* A PUT that went through the token verification, the read and the update
\* has answered once.
C26_Witness ==
  \E s \in Slots :
    /\ reqs[s].pc = "done" /\ reqs[s].m = "PUT" /\ reqs[s].status = 200
    /\ reqs[s].verifyCalls = 1 /\ reqs[s].reads = 1 /\ reqs[s].writes = 1
    /\ reqs[s].nresp = 1

\* C27: the Dashboard's three totals are the income sum, the expense sum
\* and their difference over the list its query last resolved with, 0 for
\* the empty list.
C27_TotalsTrackList ==
  dash.mounted =>
    LET xs == dash.data
        of(type) == SumAmounts(xs, {i \in 1..Len(xs) : xs[i].type = type})
    IN /\ dash.totalIncome = of("income")
       /\ dash.totalExpenses = of("expense")
       /\ dash.totalBalance = of("income") - of("expense")

\* An auth operation has been called and has not settled.
InFlight == \E i \in DOMAIN ui.calls : ui.calls[i].state = "pending"

\* C28: loading is true while at least one of login, register, logout and
\* sendPasswordReset is in flight, whatever the overlap of the calls, and
\* false once all have settled and the listener has been called.
C28_LoadingWhileInFlight ==
  /\ InFlight => ui.loading
  /\ (~InFlight /\ ui.fired) => ~ui.loading

\* C29: a Toast calls onClose at most once; after the close button the
\* timer does not call it again while the Toast stays mounted.
C29_OnCloseAtMostOnce == ui.closes <= 1

\* C30: the view becomes 'resetEmailSent' only from 'forgotPassword', only
\* on a sendPasswordReset that succeeded and with resetEmail the address
\* submitted; a failed send leaves the view as it is; 'register',
\* 'forgotPassword' and 'resetEmailSent' are otherwise left only for
\* 'login', and 'login' only for 'register' or 'forgotPassword'; no form is
\* rendered for a signed-in user.
C30_ViewMachine ==
  [][LET v == ui.view
         w == ui'.view
     IN /\ (w = "resetEmailSent" /\ v # w) =>
             /\ v = "forgotPassword"
             /\ ui'.lastSend # <<>> /\ ui'.lastSend[1].ok
             /\ ui'.resetEmail = ui'.lastSend[1].email
        /\ (ui'.lastSend # ui.lastSend /\ ~ui'.lastSend[1].ok) => w = v
        /\ (v \in {"register", "forgotPassword", "resetEmailSent"} /\ w # v) =>
             w = "login" \/ (v = "forgotPassword" /\ w = "resetEmailSent")
        /\ (v = "login" /\ w # v) => w \in {"register", "forgotPassword"}
        /\ ui'.currentUser # <<>> => Rendered(ui') = "none"]_vars

====
